---- MODULE Spec2Model ----
(***************************************************************************)
(* Magnet player backend: the torrent client wrapper (handle map), the     *)
(* catalog store, the service layer with its startup restore loop, and    *)
(* the stream handlers' path and Range handling.                           *)
(*                                                                         *)
(* Strings the code splits or concatenates are sequences of tokens: a      *)
(* magnet URI "magnet:?xt=urn:btih:H&tr=T" is                              *)
(* <<"magnet:?", "xt=urn:btih:", "H", "&tr=", "T">>, a URL path            *)
(* "/magnet/stream/H/dir/b.mkv" is what strings.Split(path, "/") makes of  *)
(* it, <<"", "magnet", "stream", "H", "dir", "b.mkv">>.                    *)
(***************************************************************************)
EXTENDS Integers, Sequences, FiniteSets, TLC

\* Length in bytes of the longest file of the modelled torrents.
FileLen == 3

----------------------------------------------------------------------------
(* Info-hashes.  A token stands for a whole hash string; HashShape gives   *)
(* what the validator reads of it (its length and its alphabet), Lower     *)
(* what hex rendering in lower case makes of it.                           *)

Keys == {"aa", "bb"}

HashInputs == {"aa", "AA", "bb"}

Lower(s) ==
    CASE s = "AA" -> "aa"
      [] s = "BB" -> "bb"
      [] OTHER -> s

HashShape(s) ==
    CASE s \in {"aa", "bb"} -> [len |-> 40, hex |-> TRUE, base32 |-> FALSE]
      [] s \in {"AA", "BB"} -> [len |-> 40, hex |-> TRUE, base32 |-> FALSE]
      [] s = "BASE32" -> [len |-> 32, hex |-> FALSE, base32 |-> TRUE]
      [] s = "" -> [len |-> 0, hex |-> FALSE, base32 |-> FALSE]
      [] OTHER -> [len |-> 3, hex |-> FALSE, base32 |-> FALSE]

\* MagnetValidator.validateInfoHash: nil error (TRUE) or an error (FALSE).
validateInfoHash(hash) ==
    IF HashShape(hash).len = 40 THEN HashShape(hash).hex
    ELSE IF HashShape(hash).len = 32 THEN HashShape(hash).base32
    ELSE FALSE

\* InfoHashValidator.ValidateInfoHash
ValidateInfoHash(infoHash) ==
    IF infoHash = "" THEN FALSE ELSE validateInfoHash(infoHash)

----------------------------------------------------------------------------
(* Magnet URIs *)

EmptyURI == << >>

Magnet(h) == <<"magnet:?", "xt=urn:btih:", h>>

MagnetTr(h) == Magnet(h) \o <<"&tr=", "udp://t">>

Bare(h) == <<h>>

\* The magnet links a client may post.
MagnetInputs ==
    {MagnetTr("aa"), Magnet("AA"), Magnet("bb"), Bare("aa"), EmptyURI}

\* strings.HasPrefix(magnetURI, "magnet:?")
HasMagnetPrefix(uri) == Len(uri) > 0 /\ uri[1] = "magnet:?"

\* containsString(s, "magnet:?")
containsString(uri) == \E i \in 1..Len(uri) : uri[i] = "magnet:?"

\* The library's parse of the magnet: it needs the xt=urn:btih: topic.
LibParses(uri) == Len(uri) >= 3 /\ uri[2] = "xt=urn:btih:"

\* t.InfoHash().String(): the hash in lower-case hex.
InfoHashOf(uri) == Lower(uri[3])

\* After its first token a URI is a list of parameters, each a token for
\* the key (with the urn prefix of an xt) and a token for the value.
\* The positions of the xt parameters whose value starts with urn:btih:.
BtihParams(uri) ==
    {i \in 2..(Len(uri) - 1) :
        i % 2 = 0 /\ uri[i] \in {"xt=urn:btih:", "&xt=urn:btih:"}}

\* The xt parameter the loop of ValidateMagnetURI settles on: the first
\* with the urn:btih: prefix, where it returns or breaks.
FirstBtih(uri) ==
    CHOOSE i \in BtihParams(uri) : \A j \in BtihParams(uri) : i <= j

\* MagnetValidator.ValidateMagnetURI
ValidateMagnetURI(uri) ==
    /\ uri # EmptyURI
    /\ HasMagnetPrefix(uri)
    /\ BtihParams(uri) # {}
    /\ validateInfoHash(uri[FirstBtih(uri) + 1])

----------------------------------------------------------------------------
(* The three deployments of the repository: the first server (index in    *)
(* the stream URL, create-on-update enrichment), main.go with the api     *)
(* handler (file name in the stream URL), and the refactored server of    *)
(* main_new.go (service layer and handlers package).                       *)

Servers == {"legacy_index", "legacy", "refactored"}

VARIABLES
    server,       \* which deployment this process runs
    phase,        \* "boot", "restoring" (restore loop), "serving"
    restoreList,  \* records of GetAllTorrents the restore loop has yet to visit
    torrents,     \* Client.torrents: the keys of the handle map
    libTorrents,  \* info-hashes the underlying torrent client holds
    catalog,      \* the torrents table: info_hash -> row
    pending,      \* an UpdateMovieDetails between its read and its write
    result,       \* what the last call returned and logged
    req,          \* the last stream request
    resp,         \* the response to it
    listing,      \* the last FileInfo the client built, with what it was built from
    validation,   \* the last URI given to ValidateMagnetURI, with the verdict
    shutdown,     \* Application.Shutdown: its position and what it has done
    reader,       \* a stream handler at its copy loop, with its file reader
    db,           \* the schema of the database file and DatabaseManager.migrate
    stamps,       \* the clock, the timestamps of the rows and of the TorrentInfos
    calls         \* the calls running in Client, with torrentsLock and the handles

vars ==
    <<server, phase, restoreList, torrents, libTorrents, catalog, pending,
      result, req, resp, listing, validation, shutdown, reader, db, stamps,
      calls>>

streamVars == <<req, resp>>

\* The state of the server process proper.
serverVars ==
    <<server, phase, restoreList, torrents, libTorrents, catalog, pending,
      result, req, resp>>

\* The state of the parts modelled on their own.
auxVars == <<listing, validation, shutdown, reader, db, stamps, calls>>

\* Errors, as the code words them.
ErrNone == ""
ErrFormat == "invalid magnet URI format"
ErrParse == "magnet parse error"
ErrTimeout == "timeout waiting for torrent metadata"
ErrEmpty == "magnet link empty"
ErrInvalid == "validation failed"
ErrStore == "store failure"
ErrNoRecord == "record does not exist"
ErrNoTorrent == "torrent not found"
ErrPanic == "nil pointer dereference"

Result(op, h, uri, err, logged, called) ==
    [op |-> op, infoHash |-> h, uri |-> uri, err |-> err, logged |-> logged,
     called |-> called]

----------------------------------------------------------------------------
(* Torrent client wrapper (torrent/client.go) *)

\* The error Client.AddMagnet returns; gotInfo: the metadata arrived before
\* the 30 s timer fired.
ClientAddMagnetErr(uri, gotInfo) ==
    IF ~HasMagnetPrefix(uri) THEN ErrFormat
    ELSE IF ~LibParses(uri) THEN ErrParse
    ELSE IF ~gotInfo THEN ErrTimeout
    ELSE ErrNone

\* c.torrents after Client.AddMagnet
ClientAddMagnetMap(ts, uri, gotInfo) ==
    IF ClientAddMagnetErr(uri, gotInfo) = ErrNone
    THEN ts \cup {InfoHashOf(uri)}
    ELSE ts

\* What c.client holds after c.client.AddMagnet(uri): the torrent is added
\* before the wait for metadata and no path drops it.
ClientAddMagnetLib(lib, uri) ==
    IF HasMagnetPrefix(uri) /\ LibParses(uri)
    THEN lib \cup {InfoHashOf(uri)}
    ELSE lib

\* The TorrentInfo.InfoHash of a successful Client.AddMagnet.
ClientInfoHash(uri, gotInfo) ==
    IF ClientAddMagnetErr(uri, gotInfo) = ErrNone THEN InfoHashOf(uri) ELSE ""

\* Client.GetTorrent: a lookup of the map by the string as given.
GetTorrent(ts, infoHash) == infoHash \in ts

\* Client.ListTorrents: the info-hashes of the snapshot.
ListTorrents(ts) == {h \in Keys : h \in ts}

----------------------------------------------------------------------------
(* Catalog store (db/torrent_store.go) *)

Row(uri, md, files) == [magnetUri |-> uri, movieDetails |-> md, files |-> files]

HasRecord(cat, h) == h \in DOMAIN cat

\* TorrentStore.AddTorrent: INSERT OR REPLACE of the whole row.
AddTorrent(cat, h, row) == (h :> row) @@ cat

\* TorrentStore.SaveTorrent of the first store: an upsert of name, magnet
\* and the movie columns; the other columns of an existing row stay.
SaveTorrent(cat, h, uri, md) ==
    (h :> Row(uri, md, IF HasRecord(cat, h) THEN cat[h].files ELSE 0)) @@ cat

\* TorrentStore.UpdateTorrent: every column but movie_details, from the record.
UpdateTorrent(cat, h, uri, files) ==
    [cat EXCEPT ![h] = Row(uri, cat[h].movieDetails, files)]

\* TorrentStore.UpdateTorrentMovieDetail: every column but files, from the record.
UpdateTorrentMovieDetail(cat, h, record) ==
    [cat EXCEPT ![h] = Row(record.magnetUri, record.movieDetails, cat[h].files)]

\* TorrentStore.DeleteTorrent
StoreDeleteTorrent(cat, h) == [k \in DOMAIN cat \ {h} |-> cat[k]]

----------------------------------------------------------------------------
(* Startup: the restore loop of main.go and of                             *)
(* TorrentService.RestoreTorrentsFromDB                                    *)

Records(cat) ==
    {[infoHash |-> h, magnetUri |-> cat[h].magnetUri] : h \in DOMAIN cat}

\* GetAllTorrents orders by added_at, which the rows here do not carry: any
\* order of the rows.
Orders(S) ==
    {l \in [1..Cardinality(S) -> S] :
        \A i, j \in 1..Cardinality(S) : i # j => l[i] # l[j]}

\* A restore loop without the test of the magnet.
RestoreEvery(rec) == TRUE

\* if t.MagnetURI != ""
RestoreWanted(rec) == rec.magnetUri # EmptyURI

\* The magnet the loop hands to Client.AddMagnet: main.go passes the stored
\* one, the service rebuilds one from the info-hash when the stored text
\* does not contain "magnet:?".
RestoreMagnet(srv, rec) ==
    IF srv = "refactored" /\ ~containsString(rec.magnetUri)
    THEN Magnet(rec.infoHash)
    ELSE rec.magnetUri

NoRequest == [hash |-> "", name |-> << >>, range |-> << >>, hasRange |-> FALSE]

NoResponse ==
    [status |-> 0, contentLength |-> -1, fileIndex |-> -1, body |-> << >>,
     attempted |-> 0, clientGone |-> FALSE]

EmptyCatalog == [h \in {} |-> Row(EmptyURI, 0, 0)]

\* No FileInfo has been built.
NoListing ==
    [from |-> "none", ext |-> "", length |-> 0, bytesCompleted |-> 0,
     isVideo |-> FALSE, isPlayable |-> FALSE]

\* ValidateMagnetURI has not been called.
NoValidation == [called |-> FALSE, uri |-> EmptyURI, ok |-> FALSE]

\* The parts modelled on their own, before anything ran in them.
\* Application.Shutdown has not been called.
NoShutdown == [pc |-> "running", cmd |-> 1, dbOpen |-> TRUE, events |-> << >>]

\* No stream handler is at its copy loop.
NoReader == [pc |-> "idle", open |-> FALSE, ended |-> "", have |-> {}, pos |-> 1]

\* len(migrations)
NumMigrations == 4

\* A data directory without a database file, and no process on it.
\* versions: the rows of schema_migrations; effects: how many times each
\* migration's SQL was committed; order: the versions as they were committed.
NoDb ==
    [pc |-> "down", versions |-> {}, effects |-> [v \in 1..NumMigrations |-> 0],
     order |-> << >>, applied |-> {}, next |-> 1, startups |-> 0, failures |-> 0]

\* time.Time{}
ZeroTime == 0

\* An empty torrents table at the first instant, nothing added or listed.
\* rows: added_at, created_at, updated_at and whether movie_details is set,
\* by info-hash; read: the record
\* an UpdateMovieDetails holds; returned and listed: the AddedAt of the
\* TorrentInfo AddMagnet returned and of the last ListTorrents.
NoStamps ==
    [clock |-> 1,
     rows |-> [h \in {} |-> [addedAt |-> 0, createdAt |-> 0, updatedAt |-> 0,
                             movieDetails |-> FALSE]],
     read |-> << >>,
     returned |-> [h \in Keys |-> ZeroTime],
     listed |-> [h \in Keys |-> ZeroTime]]

\* The goroutines that call into Client.
Threads == {"t1", "t2"}

\* A goroutine outside Client.
Idle == [pc |-> "idle", op |-> "", hash |-> "", panicked |-> FALSE, ret |-> ""]

\* A Client no call has entered.  lock: the holder of torrentsLock, "" when
\* free; handles: the keys of c.torrents; lib: the torrents of c.client;
\* info: those of them whose metadata has arrived.
NoCalls ==
    [lock |-> "", handles |-> {}, lib |-> {}, info |-> {},
     th |-> [t \in Threads |-> Idle]]

AuxInit ==
    /\ stamps = NoStamps
    /\ calls = NoCalls
    /\ listing = NoListing
    /\ validation = NoValidation
    /\ shutdown = NoShutdown
    /\ reader = NoReader
    /\ db = NoDb

Init ==
    /\ AuxInit
    /\ server \in Servers
    /\ phase = "boot"
    /\ restoreList = << >>
    /\ torrents = {}
    /\ libTorrents = {}
    /\ catalog = EmptyCatalog
    /\ pending = << >>
    /\ result = Result("NewClient", "", EmptyURI, ErrNone, ErrNone, FALSE)
    /\ req = NoRequest
    /\ resp = NoResponse

\* torrentStore.GetAllTorrents() at the head of the restore.
LoadCatalog ==
    /\ phase = "boot"
    /\ phase' = "restoring"
    /\ \E ok \in BOOLEAN :
          IF ok
          THEN /\ restoreList' \in Orders(Records(catalog))
               /\ result' = Result("GetAllTorrents", "", EmptyURI, ErrNone, ErrNone, FALSE)
          ELSE /\ restoreList' = << >>
               /\ result' = Result("GetAllTorrents", "", EmptyURI, ErrStore, ErrStore, FALSE)
    /\ UNCHANGED <<server, torrents, libTorrents, catalog, pending>>
    /\ UNCHANGED <<streamVars, auxVars>>

\* A restore loop that returns at the first record it fails to add.
RestoreAborts(list, err) == IF err # ErrNone THEN << >> ELSE Tail(list)

\* The records left to the loop after one whose AddMagnet returned err: the
\* error is logged and the loop goes on (continue).
RestoreRest(list, err) == Tail(list)

\* A server that listens while the restore runs.
ListensDuringRestore(list) == TRUE

\* The restore loop has visited every record; it runs from NewApplication
\* (from main in main.go), which returns before the server listens.
RestoreReturned(list) == list = << >>

\* One iteration of the restore loop.
RestoreStep ==
    /\ phase = "restoring"
    /\ restoreList # << >>
    /\ LET rec == Head(restoreList)
           uri == RestoreMagnet(server, rec)
       IN  IF RestoreWanted(rec)
           THEN \E gotInfo \in BOOLEAN :
                  /\ restoreList' = RestoreRest(restoreList, ClientAddMagnetErr(uri, gotInfo))
                  /\ torrents' = ClientAddMagnetMap(torrents, uri, gotInfo)
                  /\ libTorrents' = ClientAddMagnetLib(libTorrents, uri)
                  /\ result' = Result("Restore", rec.infoHash, rec.magnetUri,
                                      ErrNone, ClientAddMagnetErr(uri, gotInfo), TRUE)
           ELSE /\ restoreList' = Tail(restoreList)
                /\ UNCHANGED <<torrents, libTorrents>>
                /\ result' = Result("Restore", rec.infoHash, rec.magnetUri,
                                    ErrNone, ErrNone, FALSE)
    /\ UNCHANGED <<server, phase, catalog, pending>>
    /\ UNCHANGED <<streamVars, auxVars>>

\* The loop is over: routes are registered and the server listens.
StartServer ==
    /\ phase = "restoring"
    /\ RestoreReturned(restoreList)
    /\ phase' = "serving"
    /\ result' = Result("ListenAndServe", "", EmptyURI, ErrNone, ErrNone, FALSE)
    /\ UNCHANGED <<server, restoreList, torrents, libTorrents, catalog, pending>>
    /\ UNCHANGED <<streamVars, auxVars>>

\* The process ends and a new one starts on the same data directory: the
\* catalog file stays, everything in memory is gone.
Restart ==
    /\ server' \in Servers
    /\ phase' = "boot"
    /\ restoreList' = << >>
    /\ torrents' = {}
    /\ libTorrents' = {}
    /\ pending' = << >>
    /\ result' = Result("NewClient", "", EmptyURI, ErrNone, ErrNone, FALSE)
    /\ req' = NoRequest
    /\ resp' = NoResponse
    /\ UNCHANGED catalog
    /\ UNCHANGED auxVars

----------------------------------------------------------------------------
(* Request handlers that change the catalog or the handle map *)

\* An AddMagnet that returns the store's error.
AddMagnetErrStrict(clientErr, storeErr) ==
    IF clientErr # ErrNone THEN clientErr ELSE storeErr

\* What AddMagnet returns to its caller, from the client's error and the
\* store's: a store failure is logged, not returned.
AddMagnetErr(clientErr, storeErr) == clientErr

\* The log line of AddMagnet for a failed catalog write.
AddMagnetLogged(clientErr, storeErr) ==
    IF clientErr = ErrNone THEN storeErr ELSE ErrNone

\* Client.AddMagnet, then the record's write, as Handler.AddMagnet and
\* TorrentService.AddMagnet do them.  upsert: the first store's SaveTorrent.
DoAddMagnet(uri, gotInfo, storeOk, upsert) ==
    LET clientErr == ClientAddMagnetErr(uri, gotInfo)
        h == ClientInfoHash(uri, gotInfo)
        storeErr == IF storeOk THEN ErrNone ELSE ErrStore
    IN  /\ torrents' = ClientAddMagnetMap(torrents, uri, gotInfo)
        /\ libTorrents' = ClientAddMagnetLib(libTorrents, uri)
        /\ catalog' =
              IF clientErr = ErrNone /\ storeOk
              THEN IF upsert THEN SaveTorrent(catalog, h, uri, 0)
                             ELSE AddTorrent(catalog, h, Row(uri, 0, 0))
              ELSE catalog
        /\ result' = Result("AddMagnet", h, uri, AddMagnetErr(clientErr, storeErr),
                            AddMagnetLogged(clientErr, storeErr), TRUE)

\* Handler.AddMagnet of the first server.  Requests are served one at a
\* time: no stream exchange is open.
LegacyIndexAddMagnet ==
    /\ phase = "serving"
    /\ req = NoRequest
    /\ server = "legacy_index"
    /\ \E uri \in MagnetInputs, gotInfo \in BOOLEAN, storeOk \in BOOLEAN :
          DoAddMagnet(uri, gotInfo, storeOk, TRUE)
    /\ UNCHANGED <<server, phase, restoreList, pending>>
    /\ UNCHANGED <<streamVars, auxVars>>

\* Handler.AddMagnet of main.go's server.
LegacyAddMagnet ==
    /\ phase = "serving"
    /\ req = NoRequest
    /\ server = "legacy"
    /\ \E uri \in MagnetInputs, gotInfo \in BOOLEAN, storeOk \in BOOLEAN :
          DoAddMagnet(uri, gotInfo, storeOk, FALSE)
    /\ UNCHANGED <<server, phase, restoreList, pending>>
    /\ UNCHANGED <<streamVars, auxVars>>

\* TorrentHandler.AddMagnet, which validates, then TorrentService.AddMagnet.
HandlerAddMagnet ==
    /\ phase = "serving"
    /\ req = NoRequest
    /\ server = "refactored"
    /\ \E uri \in MagnetInputs, gotInfo \in BOOLEAN, storeOk \in BOOLEAN :
          IF ~ValidateMagnetURI(uri)
          THEN /\ result' = Result("AddMagnet", "", uri, ErrInvalid, ErrNone, FALSE)
               /\ UNCHANGED <<torrents, libTorrents, catalog>>
          ELSE IF uri = EmptyURI
          THEN /\ result' = Result("AddMagnet", "", uri, ErrEmpty, ErrNone, FALSE)
               /\ UNCHANGED <<torrents, libTorrents, catalog>>
          ELSE DoAddMagnet(uri, gotInfo, storeOk, FALSE)
    /\ UNCHANGED <<server, phase, restoreList, pending>>
    /\ UNCHANGED <<streamVars, auxVars>>

\* The magnet SaveTorrentData writes: MagnetURI: torrentData.InfoHash.
SaveDataMagnet(infoHash) == Bare(infoHash)

\* Handler.SaveTorrentData and TorrentHandler.SaveTorrentData with
\* TorrentService.SaveTorrentData: the posted snapshot (its infoHash equal to
\* the one in the URL) goes to TorrentStore.UpdateTorrent.
SaveTorrentData ==
    /\ phase = "serving"
    /\ server \in {"legacy", "refactored"}
    /\ \E h \in HashInputs, storeOk \in BOOLEAN :
          IF server = "refactored" /\ ~ValidateInfoHash(h)
          THEN /\ result' = Result("SaveTorrentData", h, EmptyURI, ErrInvalid, ErrNone, FALSE)
               /\ UNCHANGED catalog
          ELSE IF ~HasRecord(catalog, h)
          THEN /\ result' = Result("SaveTorrentData", h, EmptyURI, ErrNoRecord, ErrNone, FALSE)
               /\ UNCHANGED catalog
          ELSE IF ~storeOk
          THEN /\ result' = Result("SaveTorrentData", h, EmptyURI, ErrStore, ErrNone, FALSE)
               /\ UNCHANGED catalog
          ELSE /\ catalog' = UpdateTorrent(catalog, h, SaveDataMagnet(h), 1)
               /\ result' = Result("SaveTorrentData", h, SaveDataMagnet(h), ErrNone, ErrNone, FALSE)
    /\ UNCHANGED <<server, phase, restoreList, torrents, libTorrents, pending>>
    /\ UNCHANGED <<streamVars, auxVars>>

\* An UpdateMovieDetails that makes a record for a hash that has none.
UpdateUnknownCreates(cat, h) == AddTorrent(cat, h, Row(EmptyURI, 1, 0))

\* The catalog after UpdateMovieDetails found no record for h: the call
\* returns before any write.
UpdateUnknown(cat, h) == cat

\* Handler.UpdateMovieDetails (main.go's server) and
\* TorrentService.UpdateMovieDetails, up to the record's read: GetTorrent
\* answers no record and no error for an unknown hash; the service returns
\* an error then, the handler goes on to the record it does not have.
UpdateMovieDetailsRead ==
    /\ phase = "serving"
    /\ server \in {"legacy", "refactored"}
    /\ pending = << >>
    /\ \E h \in HashInputs :
          IF HasRecord(catalog, h)
          THEN /\ pending' = <<[infoHash |-> h,
                                record |-> [catalog[h] EXCEPT !.movieDetails = 1]]>>
               /\ result' = Result("GetTorrent", h, catalog[h].magnetUri, ErrNone, ErrNone, FALSE)
               /\ UNCHANGED catalog
          ELSE /\ pending' = << >>
               /\ result' = Result("UpdateMovieDetails", h, EmptyURI,
                                   IF server = "refactored" THEN ErrNoRecord ELSE ErrPanic,
                                   ErrNone, FALSE)
               /\ catalog' = UpdateUnknown(catalog, h)
    /\ UNCHANGED <<server, phase, restoreList, torrents, libTorrents>>
    /\ UNCHANGED <<streamVars, auxVars>>

\* ... and its write, TorrentStore.UpdateTorrentMovieDetail(record).
UpdateMovieDetailsWrite ==
    /\ phase = "serving"
    /\ pending # << >>
    /\ pending' = << >>
    /\ LET h == pending[1].infoHash
       IN  IF HasRecord(catalog, h)
           THEN /\ catalog' = UpdateTorrentMovieDetail(catalog, h, pending[1].record)
                /\ result' = Result("UpdateMovieDetails", h, pending[1].record.magnetUri,
                                    ErrNone, ErrNone, FALSE)
           ELSE /\ UNCHANGED catalog
                /\ result' = Result("UpdateMovieDetails", h, EmptyURI, ErrNoRecord, ErrNone, FALSE)
    /\ UNCHANGED <<server, phase, restoreList, torrents, libTorrents>>
    /\ UNCHANGED <<streamVars, auxVars>>

\* Handler.UpdateMovieDetails of the first server: the torrent must be
\* active; a hash without a record gets a new record with an empty magnet.
CreateOnUpdate ==
    /\ phase = "serving"
    /\ server = "legacy_index"
    /\ \E h \in HashInputs :
          IF ~GetTorrent(torrents, h)
          THEN /\ result' = Result("UpdateMovieDetails", h, EmptyURI, ErrNoTorrent, ErrNone, FALSE)
               /\ UNCHANGED catalog
          ELSE LET uri == IF HasRecord(catalog, h) THEN catalog[h].magnetUri ELSE EmptyURI
               IN  /\ catalog' = SaveTorrent(catalog, h, uri, 1)
                   /\ result' = Result("UpdateMovieDetails", h, uri, ErrNone, ErrNone, FALSE)
    /\ UNCHANGED <<server, phase, restoreList, torrents, libTorrents, pending>>
    /\ UNCHANGED <<streamVars, auxVars>>

\* A DeleteTorrent that drops the handle.
DeleteAlsoFromClient(ts, h) == ts \ {h}

\* What TorrentService.DeleteTorrent leaves of the handle map: removal from
\* the client is a TODO, the map is not touched.
DeleteFromClient(ts, h) == ts

\* TorrentService.DeleteTorrent
DeleteTorrent ==
    /\ phase = "serving"
    /\ server = "refactored"
    /\ \E h \in HashInputs :
          IF HasRecord(catalog, h)
          THEN /\ catalog' = StoreDeleteTorrent(catalog, h)
               /\ torrents' = DeleteFromClient(torrents, h)
               /\ result' = Result("DeleteTorrent", h, EmptyURI, ErrNone, ErrNone, FALSE)
          ELSE /\ UNCHANGED <<catalog, torrents>>
               /\ result' = Result("DeleteTorrent", h, EmptyURI, ErrNoRecord, ErrNone, FALSE)
    /\ UNCHANGED <<server, phase, restoreList, libTorrents, pending>>
    /\ UNCHANGED <<streamVars, auxVars>>

Next ==
    \/ LoadCatalog
    \/ RestoreStep
    \/ StartServer
    \/ Restart
    \/ LegacyIndexAddMagnet
    \/ LegacyAddMagnet
    \/ HandlerAddMagnet
    \/ SaveTorrentData
    \/ UpdateMovieDetailsRead
    \/ UpdateMovieDetailsWrite
    \/ CreateOnUpdate
    \/ DeleteTorrent

Spec == Init /\ [][Next]_vars

----------------------------------------------------------------------------
(* Stream handlers: Handler.StreamFile (both versions of api/handler.go)   *)
(* and StreamHandler.StreamFile (handlers/stream_handler.go)               *)

\* t.Files() of the modelled torrents; a path is its slash-separated parts.
TorrentFiles(h) ==
    CASE h = "aa" -> <<[path |-> <<"a.mp4">>, length |-> FileLen],
                       [path |-> <<"dir", "b.mkv">>, length |-> 2]>>
      [] h = "bb" -> <<[path |-> <<"c.txt">>, length |-> 1]>>
      [] OTHER -> << >>

\* The byte at offset off of file i (from 0) of torrent h.
FileByte(h, i, off) == (IF h = "aa" THEN 26 ELSE 77) + 10 * i + off

\* FileInfo of Client.ListFiles: Path and FileIndex.
ListFiles(h) ==
    [i \in 1..Len(TorrentFiles(h)) |->
        [path |-> TorrentFiles(h)[i].path, fileIndex |-> i - 1]]

Digits == <<"0", "1", "2", "3", "4", "5", "6", "7", "8", "9">>

IsNumber(s) == \E i \in 1..Len(Digits) : Digits[i] = s

\* strconv.Atoi / strconv.ParseInt of a string that is a number.
NumOf(s) == (CHOOSE i \in 1..Len(Digits) : Digits[i] = s) - 1

\* start, _ = strconv.ParseInt(s, 10, 64): 0 when s is no number.
ParseInt(s) == IF IsNumber(s) THEN NumOf(s) ELSE 0

\* The prefix the stream route is mounted at, as strings.Split sees it.
Mount(srv) ==
    IF srv = "legacy_index" THEN <<"", "stream">> ELSE <<"", "magnet", "stream">>

\* strings.Split(r.URL.Path, "/")
PathParts(srv, r) == Mount(srv) \o <<r.hash>> \o r.name

\* The file names a request may carry after the info-hash.
NameInputs ==
    {<<"a.mp4">>, <<"dir", "b.mkv">>, <<"c.txt">>, <<"0">>, <<"1">>, <<"2">>, <<"..">>}

RangeTokens == {""} \cup {Digits[i + 1] : i \in 0..(FileLen + 1)}

\* strings.Split(strings.TrimPrefix(rangeHeader, "bytes="), "-") of the Range
\* headers a request may carry: S-E, S-, -E, -, and one with two dashes.
RangeInputs == [1..2 -> RangeTokens] \cup {<<"0", "1", "2">>}

Requests ==
    [hash : HashInputs, name : NameInputs, range : {<< >>}, hasRange : {FALSE}]
    \cup [hash : HashInputs, name : NameInputs, range : RangeInputs, hasRange : {TRUE}]

\* start of the Range handling: 0 without a header or with other than two parts.
RangeStart(r) ==
    IF r.hasRange /\ Len(r.range) = 2 THEN ParseInt(r.range[1]) ELSE 0

\* end of the Range handling, clamped to the file's last byte.
RangeEnd(r, length) ==
    LET raw == IF r.hasRange /\ Len(r.range) = 2
               THEN IF r.range[2] # "" THEN ParseInt(r.range[2]) ELSE length - 1
               ELSE 0
    IN  IF r.hasRange /\ raw >= length THEN length - 1 ELSE raw

\* w.WriteHeader(...) of the Range handling.
StreamStatus(r) == IF r.hasRange THEN 206 ELSE 200

\* The Content-Length header the handler sets.
StreamContentLength(r, length) ==
    IF r.hasRange THEN RangeEnd(r, length) - RangeStart(r) + 1 ELSE length

Max(a, b) == IF a >= b THEN a ELSE b

Min(a, b) == IF a <= b THEN a ELSE b

\* A copy that takes end = 0 for a range.
CopyCountAlwaysN(start, end, length) ==
    Min(Max(end - start + 1, 0), Max(length - start, 0))

\* The number of bytes the handler copies from the reader, which stands at
\* start: io.CopyN of end-start+1 bytes when end > 0, else io.Copy to the end.
CopyCount(start, end, length) ==
    IF end > 0
    THEN Min(Max(end - start + 1, 0), Max(length - start, 0))
    ELSE Max(length - start, 0)

\* The bytes of file i of torrent h from offset start, n of them.
FileBytes(h, i, start, n) == [k \in 1..n |-> FileByte(h, i, start + k - 1)]

ErrorResponse(status, fileIndex) ==
    [status |-> status, contentLength |-> -1, fileIndex |-> fileIndex,
     body |-> << >>, attempted |-> 0, clientGone |-> FALSE]

\* The Range handling and the copy, shared by both versions of
\* Handler.StreamFile.  sent: how many bytes the connection took; gone: the
\* client left before the copy was over.
ServeFile(h, i, r, sent, gone) ==
    LET length == TorrentFiles(h)[i + 1].length
        start == RangeStart(r)
        end == RangeEnd(r, length)
    IN  [status |-> StreamStatus(r),
         contentLength |-> StreamContentLength(r, length),
         fileIndex |-> i,
         body |-> FileBytes(h, i, start, sent),
         attempted |-> CopyCount(start, end, length),
         clientGone |-> gone]

\* The byte counts the connection can take of a copy: all of it, or less
\* when the client leaves; never more than a valid Content-Length, beyond
\* which the ResponseWriter refuses the write (http.ErrContentLength).
Deliverable(h, i, r, gone) ==
    LET length == TorrentFiles(h)[i + 1].length
        n == CopyCount(RangeStart(r), RangeEnd(r, length), length)
        cl == StreamContentLength(r, length)
        room == IF cl >= 0 THEN Min(n, cl) ELSE n
    IN  IF gone THEN 0..(room - 1)
        ELSE IF room < n THEN 0..room
        ELSE {n}

\* The index of the file whose Path equals fileName, -1 when there is none.
FindByPath(h, fileName) ==
    IF \E i \in 1..Len(ListFiles(h)) : ListFiles(h)[i].path = <<fileName>>
    THEN ListFiles(h)[CHOOSE i \in 1..Len(ListFiles(h)) :
                         ListFiles(h)[i].path = <<fileName>>].fileIndex
    ELSE -1

\* Handler.StreamFile of main.go's server, up to the file: pathParts[3] is
\* the info-hash, pathParts[4] the file name.  The file's index, or the
\* status of the error (0: index out of range, the handler panics).
LegacyResolve(ts, parts) ==
    IF Len(parts) < 5 THEN [status |-> 0, fileIndex |-> -1]
    ELSE IF ~GetTorrent(ts, parts[4]) THEN [status |-> 404, fileIndex |-> -1]
    ELSE IF FindByPath(parts[4], parts[5]) = -1 THEN [status |-> 404, fileIndex |-> -1]
    ELSE [status |-> 200, fileIndex |-> FindByPath(parts[4], parts[5])]

\* Handler.StreamFile of the first server, up to the file: pathParts[2] is
\* the info-hash, pathParts[3] the file index.
LegacyIndexResolve(ts, parts) ==
    IF Len(parts) < 4 THEN [status |-> 400, fileIndex |-> -1]
    ELSE IF ~IsNumber(parts[4]) THEN [status |-> 400, fileIndex |-> -1]
    ELSE IF ~GetTorrent(ts, parts[3]) THEN [status |-> 404, fileIndex |-> -1]
    ELSE IF NumOf(parts[4]) >= Len(TorrentFiles(parts[3]))
    THEN [status |-> 400, fileIndex |-> -1]
    ELSE [status |-> 200, fileIndex |-> NumOf(parts[4])]

\* FilePathValidator.ValidateFilePath
ValidateFilePath(filePath) == filePath # "" /\ filePath # ".."

\* StreamHandler.streamFileContent: sets two headers and returns an error,
\* which isConnectionClosed does not take for a closed connection.
StreamFileContentStatus == 500

\* StreamHandler.StreamFile: the last two parts of the path are the
\* info-hash and the file name.
RefactoredResolve(ts, parts) ==
    IF Len(parts) < 4 THEN [status |-> 400, fileIndex |-> -1]
    ELSE IF ~ValidateInfoHash(parts[Len(parts) - 1]) THEN [status |-> 400, fileIndex |-> -1]
    ELSE IF ~ValidateFilePath(parts[Len(parts)]) THEN [status |-> 400, fileIndex |-> -1]
    ELSE IF ~GetTorrent(ts, parts[Len(parts) - 1]) THEN [status |-> 404, fileIndex |-> -1]
    ELSE IF FindByPath(parts[Len(parts) - 1], parts[Len(parts)]) = -1
    THEN [status |-> 404, fileIndex |-> -1]
    ELSE [status |-> StreamFileContentStatus,
          fileIndex |-> FindByPath(parts[Len(parts) - 1], parts[Len(parts)])]

\* The info-hash the handler of srv reads from the path.
PathHash(srv, parts) ==
    IF srv = "legacy_index" THEN parts[3]
    ELSE IF srv = "legacy" THEN parts[4]
    ELSE parts[Len(parts) - 1]

Resolve(srv, ts, parts) ==
    IF srv = "legacy_index" THEN LegacyIndexResolve(ts, parts)
    ELSE IF srv = "legacy" THEN LegacyResolve(ts, parts)
    ELSE RefactoredResolve(ts, parts)

\* GET on the stream route: the handler runs to its end and leaves the
\* exchange in req and resp.
StreamFile ==
    /\ phase = "serving"
    /\ req = NoRequest
    /\ \E r \in Requests :
          LET parts == PathParts(server, r)
              found == Resolve(server, torrents, parts)
          IN  /\ req' = r
              /\ IF server = "refactored" \/ found.fileIndex = -1
                 THEN resp' = ErrorResponse(found.status, found.fileIndex)
                 ELSE \E gone \in BOOLEAN :
                        \E sent \in Deliverable(PathHash(server, parts), found.fileIndex, r, gone) :
                          resp' = ServeFile(PathHash(server, parts), found.fileIndex, r, sent, gone)
    /\ result' = Result("StreamFile", "", EmptyURI, ErrNone, ErrNone, FALSE)
    /\ UNCHANGED <<server, phase, restoreList, torrents, libTorrents, catalog, pending>>
    /\ UNCHANGED auxVars

\* The stream exchange is over: the next request can come.
CloseStream ==
    /\ req # NoRequest
    /\ req' = NoRequest
    /\ resp' = NoResponse
    /\ UNCHANGED <<server, phase, restoreList, torrents, libTorrents, catalog,
                   pending, result>>
    /\ UNCHANGED auxVars

NextStream ==
    \/ LoadCatalog
    \/ StartServer
    \/ LegacyIndexAddMagnet
    \/ LegacyAddMagnet
    \/ HandlerAddMagnet
    \/ StreamFile
    \/ CloseStream

SpecStream == Init /\ [][NextStream]_vars

----------------------------------------------------------------------------
(* Properties *)

\* C1: a torrent whose AddMagnet succeeded is in ListTorrents when the call
\* returns, and no later step of the same process takes a listed torrent
\* off the list.
C1_AddedStaysListed ==
    [][/\ (result'.op = "AddMagnet" /\ result'.err = ErrNone)
            => result'.infoHash \in ListTorrents(torrents')
       /\ phase' # "boot" => ListTorrents(torrents) \subseteq ListTorrents(torrents')]_vars

C1_Witness ==
    /\ result.op = "DeleteTorrent"
    /\ result.err = ErrNone
    /\ result.infoHash \in ListTorrents(torrents)

\* C2: the restore loop lists every record whose stored magnet is not
\* empty, when the metadata arrives in time.
C2_RestoredWhenMagnetStored ==
    (result.op = "Restore" /\ result.uri # EmptyURI /\ result.logged # ErrTimeout)
        => result.infoHash \in ListTorrents(torrents)

\* C9: the restore loop does not call the client's AddMagnet for a record
\* with an empty magnet, and when the loop is over no such record has a
\* handle.
C9_EmptyMagnetSkipped ==
    /\ (result.op = "Restore" /\ result.uri = EmptyURI)
          => ~result.called /\ ~GetTorrent(torrents, result.infoHash)
    /\ (phase = "restoring" /\ restoreList = << >>)
          => \A h \in DOMAIN catalog :
                catalog[h].magnetUri = EmptyURI => ~GetTorrent(torrents, h)

C9_Witness ==
    /\ phase = "restoring"
    /\ restoreList = << >>
    /\ result.op = "Restore"
    /\ result.uri = EmptyURI
    /\ HasRecord(catalog, result.infoHash)

\* C10: when the client accepted the magnet and the catalog write failed,
\* AddMagnet returns no error, the torrent is listed, and the failure is in
\* the log only.
C10_StoreFailureOnlyLogged ==
    (result.op = "AddMagnet" /\ result.logged = ErrStore)
        => /\ result.err = ErrNone
           /\ result.infoHash \in ListTorrents(torrents)

C10_Witness ==
    /\ result.op = "AddMagnet"
    /\ result.logged = ErrStore
    /\ result.infoHash \in ListTorrents(torrents)

\* The torrent and the file a finished stream exchange resolved to.
ServedHash == PathHash(server, PathParts(server, req))

ServedLength == TorrentFiles(ServedHash)[resp.fileIndex + 1].length

\* The exchange was served by Handler.StreamFile and reached a file.
ServedByHandler ==
    /\ req # NoRequest
    /\ server \in {"legacy_index", "legacy"}
    /\ resp.fileIndex >= 0

\* C3: a Range of bytes=S-E with 0 <= S <= E < length gets 206, a
\* Content-Length of E-S+1 and, when the client stays, the E-S+1 bytes of
\* the file from offset S.
C3_RangeServed ==
    (/\ ServedByHandler
     /\ req.hasRange
     /\ Len(req.range) = 2
     /\ IsNumber(req.range[1])
     /\ IsNumber(req.range[2])
     /\ NumOf(req.range[1]) <= NumOf(req.range[2])
     /\ NumOf(req.range[2]) < ServedLength)
        => /\ resp.status = 206
           /\ resp.contentLength = NumOf(req.range[2]) - NumOf(req.range[1]) + 1
           /\ ~resp.clientGone =>
                resp.body = FileBytes(ServedHash, resp.fileIndex, NumOf(req.range[1]),
                                      NumOf(req.range[2]) - NumOf(req.range[1]) + 1)

\* C4: a Range whose start is beyond its end or not below the file's length
\* gets 416 and no byte of the file.
C4_BadRangeRefused ==
    (/\ ServedByHandler
     /\ req.hasRange
     /\ Len(req.range) = 2
     /\ IsNumber(req.range[1])
     /\ \/ NumOf(req.range[1]) >= ServedLength
        \/ IsNumber(req.range[2]) /\ NumOf(req.range[1]) > NumOf(req.range[2]))
        => /\ resp.status = 416
           /\ resp.body = << >>

\* C5: a request without a Range for a file of an active torrent gets 200,
\* a Content-Length of the file's length and, when the client stays, the
\* whole file from offset 0.
C5_WholeFileServed ==
    (ServedByHandler /\ ~req.hasRange)
        => /\ resp.status = 200
           /\ resp.contentLength = ServedLength
           /\ ~resp.clientGone =>
                resp.body = FileBytes(ServedHash, resp.fileIndex, 0, ServedLength)

C5_Witness ==
    /\ ServedByHandler
    /\ ~req.hasRange
    /\ ~resp.clientGone
    /\ resp.status = 200
    /\ Len(resp.body) = FileLen

\* C6: StreamHandler.StreamFile answers a request for a file of an active
\* torrent with 206 when it has a Range and 200 when it has none, never
\* with a 5xx.
C6_RefactoredStreams ==
    (/\ req # NoRequest
     /\ server = "refactored"
     /\ resp.fileIndex >= 0)
        => /\ resp.status < 500
           /\ resp.status = IF req.hasRange THEN 206 ELSE 200

\* C7: a request whose file-name part is the path of a file of the active
\* torrent, of one component or of several, resolves to that file's index.
C7_PathResolves ==
    (/\ req # NoRequest
     /\ server \in {"legacy", "refactored"}
     /\ GetTorrent(torrents, req.hash))
        => \A i \in 1..Len(ListFiles(req.hash)) :
              ListFiles(req.hash)[i].path = req.name
                 => resp.fileIndex = ListFiles(req.hash)[i].fileIndex

\* C8: a request with a file index in the place of the name resolves to
\* the file at that index, on the stream route of every server.
C8_IndexResolves ==
    (/\ req # NoRequest
     /\ GetTorrent(torrents, req.hash)
     /\ Len(req.name) = 1
     /\ IsNumber(req.name[1])
     /\ NumOf(req.name[1]) < Len(ListFiles(req.hash)))
        => resp.fileIndex = NumOf(req.name[1])

\* C11: every info-hash of the client's handle map has a record in the
\* catalog.
C11_HandlesInCatalog ==
    \A h \in ListTorrents(torrents) : HasRecord(catalog, h)

\* C12: when the metadata does not arrive before the timer fires, AddMagnet
\* returns the error, the info-hash is not in the handle map and the
\* underlying client no longer holds the torrent.
C12_TimeoutDiscardsHandle ==
    (result.op = "AddMagnet" /\ result.err = ErrTimeout)
        => /\ ~GetTorrent(torrents, InfoHashOf(result.uri))
           /\ InfoHashOf(result.uri) \notin libTorrents

\* C13: an active torrent is found whatever the case of the 40-hex
\* info-hash: by GetTorrent, and by the stream route for a file of it.
C13_HashCaseInsensitive ==
    /\ \A h \in HashInputs :
          GetTorrent(torrents, Lower(h)) => GetTorrent(torrents, h)
    /\ (/\ req # NoRequest
        /\ server = "legacy"
        /\ GetTorrent(torrents, Lower(req.hash))
        /\ Len(req.name) = 1
        /\ FindByPath(Lower(req.hash), req.name[1]) # -1)
          => resp.fileIndex = FindByPath(Lower(req.hash), req.name[1])

----------------------------------------------------------------------------
(* File entries: Client.ListFiles and Client.getTorrentInfo *)

\* Sizes are counted in KiB, which keeps every threshold of the code exact.
MiB == 1024

\* filepath.Ext of the files' display paths.
Exts == {".mp4", ".MKV", ".txt"}

\* strings.ToLower
ToLower(ext) == IF ext = ".MKV" THEN ".mkv" ELSE ext

\* isVideoFile: a lookup of the extension as given.
isVideoFile(ext) == ext \in {".mp4", ".mkv", ".avi", ".mov", ".wmv", ".flv", ".webm",
                             ".m4v", ".mpg", ".mpeg", ".3gp", ".rmvb", ".ts", ".m2ts"}

\* f.Length() of the files.
Lengths == {0, 100, 10 * MiB, 200 * MiB}

\* f.BytesCompleted() of a file of that length.
Completed(length) ==
    {b \in {0, 1, 2, 5, (2 * length) \div 100, (5 * length) \div 100, 5 * MiB, length} :
        b <= length}

\* progress >= pct/100, with progress = bytesCompleted / length, and 0 for
\* an empty file.
ProgressAtLeast(bytesCompleted, length, pct) ==
    IF length > 0 THEN bytesCompleted * 100 >= pct * length ELSE pct <= 0

\* isPlayable as Client.ListFiles works it out.
ListFilesPlayable(isVideo, bytesCompleted, length) ==
    IF ~isVideo THEN FALSE
    ELSE IF length < 10 * MiB THEN ProgressAtLeast(bytesCompleted, length, 2)
    ELSE ProgressAtLeast(bytesCompleted, length, 5) \/ bytesCompleted >= 5 * MiB

\* isPlayable as Client.getTorrentInfo works it out.
TorrentInfoPlayable(isVideo, bytesCompleted, length) ==
    isVideo /\ bytesCompleted > 0

\* Client.ListFiles builds the FileInfo of a file.
ListFilesEntry ==
    /\ \E ext \in Exts, length \in Lengths :
         \E b \in Completed(length) :
            listing' = [from |-> "ListFiles", ext |-> ext, length |-> length,
                        bytesCompleted |-> b,
                        isVideo |-> isVideoFile(ToLower(ext)),
                        isPlayable |-> ListFilesPlayable(isVideoFile(ToLower(ext)), b, length)]
    /\ UNCHANGED <<serverVars, validation, shutdown, reader, db, stamps, calls>>

\* Client.getTorrentInfo builds the FileInfo of a file of its snapshot.
TorrentInfoEntry ==
    /\ \E ext \in Exts, length \in Lengths :
         \E b \in Completed(length) :
            listing' = [from |-> "getTorrentInfo", ext |-> ext, length |-> length,
                        bytesCompleted |-> b,
                        isVideo |-> isVideoFile(ext),
                        isPlayable |-> TorrentInfoPlayable(isVideoFile(ext), b, length)]
    /\ UNCHANGED <<serverVars, validation, shutdown, reader, db, stamps, calls>>

NextFiles ==
    \/ ListFilesEntry
    \/ TorrentInfoEntry

SpecFiles == Init /\ [][NextFiles]_vars

\* C14: a reported file entry is playable exactly when it is a video and
\* its progress is at least 5%, or at least 5 MiB of it are complete, or it
\* is smaller than 10 MiB and its progress is at least 2%.
C14_PlayableRule ==
    listing.from # "none"
        => (listing.isPlayable <=>
              /\ listing.isVideo
              /\ \/ ProgressAtLeast(listing.bytesCompleted, listing.length, 5)
                 \/ listing.bytesCompleted >= 5 * MiB
                 \/ /\ listing.length < 10 * MiB
                    /\ ProgressAtLeast(listing.bytesCompleted, listing.length, 2))

----------------------------------------------------------------------------
(* The magnet validator on URIs of several parameters *)

\* The most parameters a URI given to the validator has.
MaxParams == 2

\* The first token of a URI: the magnet scheme or another.
Schemes == {"magnet:?", "http://x/?"}

\* The parameters' keys, as they stand first and after an ampersand.
ParamKeys(i) ==
    IF i = 1 THEN {"xt=urn:btih:", "xt=urn:sha1:", "tr="}
    ELSE {"&xt=urn:btih:", "&xt=urn:sha1:", "&tr="}

ParamValues == {"aa", "AA", "BASE32", "short"}

\* The URIs of n parameters.
RECURSIVE URIs(_)
URIs(n) ==
    IF n = 0 THEN {<<scheme>> : scheme \in Schemes}
    ELSE {u \o <<k, v>> : u \in URIs(n - 1), k \in ParamKeys(n), v \in ParamValues}

ValidatorInputs == UNION {URIs(n) : n \in 0..MaxParams} \cup {EmptyURI}

\* TorrentHandler.AddMagnet's call of ValidateMagnetURI, taken alone.
Validate ==
    /\ ~validation.called
    /\ \E uri \in ValidatorInputs :
          validation' = [called |-> TRUE, uri |-> uri, ok |-> ValidateMagnetURI(uri)]
    /\ UNCHANGED <<serverVars, listing, shutdown, reader, db, stamps, calls>>

NextValidate == Validate

SpecValidate == Init /\ [][NextValidate]_vars

\* C15: ValidateMagnetURI accepts a URI exactly when it starts with
\* magnet:? and one of its xt parameters is urn:btih:<hash> with a hash of
\* 40 hex or 32 base32 characters.
C15_ValidatorAccepts ==
    validation.called
        => (validation.ok <=>
              /\ HasMagnetPrefix(validation.uri)
              /\ \E i \in BtihParams(validation.uri) :
                    validateInfoHash(validation.uri[i + 1]))

C17_UpdateTouchesEnrichmentOnly ==
    [][(/\ server \in {"legacy", "refactored"}
        /\ pending # << >>
        /\ result'.op = "UpdateMovieDetails"
        /\ result'.err = ErrNone)
          => /\ catalog'[result'.infoHash].magnetUri = catalog[result'.infoHash].magnetUri
             /\ catalog'[result'.infoHash].files = catalog[result'.infoHash].files]_vars

----------------------------------------------------------------------------
(* Application.Shutdown of main_new.go.  The store and the database       *)
(* manager hold the same *sql.DB: NewTorrentStore takes dbManager.GetDB(). *)

\* The commands of DatabaseManager.Optimize, in its order.
Optimizations ==
    <<"VACUUM", "ANALYZE", "PRAGMA optimize", "PRAGMA wal_checkpoint(TRUNCATE)">>

\* One step of the shutdown, with whether the database handle was open.
Event(what) == [what |-> what, dbOpen |-> shutdown.dbOpen]

\* main: a signal arrived, Shutdown is called.
Signal ==
    /\ server = "refactored"
    /\ phase = "serving"
    /\ req = NoRequest
    /\ shutdown.pc = "running"
    /\ phase' = "stopping"
    /\ shutdown' = [shutdown EXCEPT !.pc = "server"]
    /\ UNCHANGED <<server, restoreList, torrents, libTorrents, catalog, pending,
                   result, req, resp, listing, validation, reader, db, stamps,
                   calls>>

\* app.server.Shutdown(ctx): the listener closes, requests drain or the
\* context runs out; an error is logged only.
ServerShutdown ==
    /\ shutdown.pc = "server"
    /\ shutdown' = [shutdown EXCEPT !.pc = "client",
                                    !.events = Append(@, Event("server.Shutdown"))]
    /\ UNCHANGED <<serverVars, listing, validation, reader, db, stamps, calls>>

\* app.torrentClient.Close()
ClientClose ==
    /\ shutdown.pc = "client"
    /\ libTorrents' = {}
    /\ shutdown' = [shutdown EXCEPT !.pc = "store",
                                    !.events = Append(@, Event("client.Close"))]
    /\ UNCHANGED <<server, phase, restoreList, torrents, catalog, pending,
                   result, req, resp, listing, validation, reader, db, stamps,
                   calls>>

\* app.torrentStore.Close(): s.db.Close() on the shared handle.
StoreClose ==
    /\ shutdown.pc = "store"
    /\ shutdown' = [shutdown EXCEPT !.pc = "optimize",
                                    !.dbOpen = FALSE,
                                    !.events = Append(@, Event("db.Close"))]
    /\ UNCHANGED <<serverVars, listing, validation, reader, db, stamps, calls>>

\* One dm.db.Exec of DatabaseManager.Optimize: on a closed handle it fails,
\* which is logged, and the loop goes on.
OptimizeExec ==
    /\ shutdown.pc = "optimize"
    /\ shutdown' = [shutdown EXCEPT
                      !.pc = IF shutdown.cmd = Len(Optimizations) THEN "manager" ELSE @,
                      !.cmd = IF shutdown.cmd = Len(Optimizations) THEN @ ELSE @ + 1,
                      !.events = Append(@, Event(Optimizations[shutdown.cmd]))]
    /\ UNCHANGED <<serverVars, listing, validation, reader, db, stamps, calls>>

\* app.dbManager.Close()
ManagerClose ==
    /\ shutdown.pc = "manager"
    /\ shutdown' = [shutdown EXCEPT !.pc = "done",
                                    !.dbOpen = FALSE,
                                    !.events = Append(@, Event("db.Close"))]
    /\ UNCHANGED <<serverVars, listing, validation, reader, db, stamps, calls>>

NextShutdown ==
    \/ LoadCatalog
    \/ StartServer
    \/ HandlerAddMagnet
    \/ Signal
    \/ ServerShutdown
    \/ ClientClose
    \/ StoreClose
    \/ OptimizeExec
    \/ ManagerClose

SpecShutdown == Init /\ [][NextShutdown]_vars

\* The positions of the shutdown's steps of one kind.
ShutdownSteps(kinds) ==
    {i \in 1..Len(shutdown.events) : shutdown.events[i].what \in kinds}

OptimizeSteps == ShutdownSteps({Optimizations[i] : i \in 1..Len(Optimizations)})

\* C18: on shutdown the HTTP server stops first, then the torrent client
\* is closed, then the optimization runs on a database that is still open,
\* and the database is closed after it.
C18_ShutdownOrder ==
    /\ \A i \in ShutdownSteps({"server.Shutdown"}), j \in ShutdownSteps({"client.Close"}) :
          i < j
    /\ \A i \in ShutdownSteps({"client.Close"}), j \in OptimizeSteps : i < j
    /\ \A i \in OptimizeSteps : shutdown.events[i].dbOpen
    /\ \A i \in OptimizeSteps, j \in ShutdownSteps({"db.Close"}) : i < j

----------------------------------------------------------------------------
(* The copy loop of Handler.StreamFile and its file reader.  The handler   *)
(* never reads r.Context(): a Read of the reader waits for the piece, a    *)
(* Write fails once the connection is gone.                                *)

\* The pieces of the streamed file.
NumPieces == 3

\* The ways a request context ends.
ContextEnds == {"client gone", "timeout", "shutdown"}

\* reader := file.NewReader(); defer reader.Close().  The head of the file,
\* k pieces of it, is on disk already.
OpenReader ==
    /\ reader.pc = "idle"
    /\ \E k \in 0..NumPieces :
          reader' = [pc |-> "copying", open |-> TRUE, ended |-> "", have |-> 1..k,
                     pos |-> 1]
    /\ UNCHANGED <<serverVars, listing, validation, shutdown, db, stamps, calls>>

\* A piece of the file arrives from the swarm.
PieceArrives ==
    /\ reader.pc = "copying"
    /\ \E p \in (1..NumPieces) \ reader.have :
          reader' = [reader EXCEPT !.have = @ \cup {p}]
    /\ UNCHANGED <<serverVars, listing, validation, shutdown, db, stamps, calls>>

\* The request's context ends.
ContextDone ==
    /\ reader.pc = "copying"
    /\ reader.ended = ""
    /\ \E why \in ContextEnds : reader' = [reader EXCEPT !.ended = why]
    /\ UNCHANGED <<serverVars, listing, validation, shutdown, db, stamps, calls>>

\* One round of io.Copy / io.CopyN: a Read, which returns when the piece at
\* the position is there (or at the end of the file), then a Write, which
\* fails when the context has ended.
CopyStep ==
    /\ reader.pc = "copying"
    /\ reader.pos > NumPieces \/ reader.pos \in reader.have
    /\ reader' =
          IF reader.pos > NumPieces \/ reader.ended # ""
          THEN [reader EXCEPT !.pc = "returning"]
          ELSE [reader EXCEPT !.pos = @ + 1]
    /\ UNCHANGED <<serverVars, listing, validation, shutdown, db, stamps, calls>>

\* The handler returns: the deferred reader.Close() runs.
HandlerReturn ==
    /\ reader.pc = "returning"
    /\ reader' = [reader EXCEPT !.pc = "returned", !.open = FALSE]
    /\ UNCHANGED <<serverVars, listing, validation, shutdown, db, stamps, calls>>

NextReader ==
    \/ OpenReader
    \/ PieceArrives
    \/ ContextDone
    \/ CopyStep
    \/ HandlerReturn

\* The handler's goroutine runs when it can; the swarm owes nothing.
SpecReader ==
    Init /\ [][NextReader]_vars /\ WF_vars(CopyStep) /\ WF_vars(HandlerReturn)

\* C19: when the context of a stream in progress ends, the file reader is
\* closed in the end, also when the handler waits in a Read for a piece
\* that has not arrived.
C19_ReaderClosedOnContextEnd ==
    (reader.open /\ reader.ended # "") ~> ~reader.open

----------------------------------------------------------------------------
(* DatabaseManager.migrate and applyMigration, over startups on one file *)

\* The startups the model follows.
MaxStartups == 3

\* How the transaction of applyMigration can end.
TxOutcomes == {"commit", "exec fails", "insert fails", "commit fails"}

\* A migration whose SQL is run outside the transaction of the version's row.
SqlOutsideTx(outcome) == outcome \in {"commit", "insert fails", "commit fails"}

\* The migration's SQL takes effect: tx.Exec(migration.SQL) is part of the
\* transaction, which the deferred Rollback undoes unless Commit succeeded.
SqlCommitted(outcome) == outcome = "commit"

\* The version's row is in schema_migrations.
VersionRecorded(outcome) == outcome = "commit"

\* NewDatabaseManager: sql.Open, then the head of migrate:
\* createMigrationTable and getAppliedVersions.
OpenDatabase ==
    /\ db.pc = "down"
    /\ db.startups < MaxStartups
    /\ \E ok \in BOOLEAN :
          db' = IF ok
                THEN [db EXCEPT !.pc = "migrating", !.applied = db.versions,
                                !.next = 1, !.startups = @ + 1]
                ELSE [db EXCEPT !.pc = "failed", !.startups = @ + 1,
                                !.failures = @ + 1]
    /\ UNCHANGED <<serverVars, listing, validation, shutdown, reader, stamps, calls>>

\* One round of the loop of migrate: a version that was read as applied is
\* passed over, another goes to applyMigration; its error ends migrate.
MigrateStep ==
    /\ db.pc = "migrating"
    /\ db.next <= NumMigrations
    /\ IF db.next \in db.applied
       THEN db' = [db EXCEPT !.next = @ + 1]
       ELSE \E outcome \in TxOutcomes :
              db' = [db EXCEPT
                       !.effects[db.next] = IF SqlCommitted(outcome) THEN @ + 1 ELSE @,
                       !.order = IF SqlCommitted(outcome) THEN Append(@, db.next) ELSE @,
                       !.versions = IF VersionRecorded(outcome) THEN @ \cup {db.next} ELSE @,
                       !.next = IF outcome = "commit" THEN @ + 1 ELSE @,
                       !.pc = IF outcome = "commit" THEN @ ELSE "failed",
                       !.failures = IF outcome = "commit" THEN @ ELSE @ + 1]
    /\ UNCHANGED <<serverVars, listing, validation, shutdown, reader, stamps, calls>>

\* The loop is over: migrate returns nil.
MigrateDone ==
    /\ db.pc = "migrating"
    /\ db.next > NumMigrations
    /\ db' = [db EXCEPT !.pc = "up"]
    /\ UNCHANGED <<serverVars, listing, validation, shutdown, reader, stamps, calls>>

\* The process ends, after a failed startup or a run; the file stays.
ProcessExit ==
    /\ db.pc \in {"failed", "up"}
    /\ db' = [db EXCEPT !.pc = "down"]
    /\ UNCHANGED <<serverVars, listing, validation, shutdown, reader, stamps, calls>>

NextMigrate ==
    \/ OpenDatabase
    \/ MigrateStep
    \/ MigrateDone
    \/ ProcessExit

SpecMigrate == Init /\ [][NextMigrate]_vars

----------------------------------------------------------------------------
(* Startup order and the restore loop *)

\* What the request handlers leave in result.
HandlerOps ==
    {"AddMagnet", "SaveTorrentData", "GetTorrent", "UpdateMovieDetails",
     "DeleteTorrent", "StreamFile"}

\* C21: when the server accepts requests the restore loop has visited every
\* record of the catalog: no request is handled, and the server does not
\* listen, while records are left to restore.
C21_RestoreBeforeServing ==
    /\ phase = "serving" => restoreList = << >>
    /\ result.op \in HandlerOps => phase = "serving" /\ restoreList = << >>

C21_Witness ==
    /\ phase = "serving"
    /\ result.op = "ListenAndServe"
    /\ Cardinality(DOMAIN catalog) = 2
    /\ torrents # {}

\* C22: in the restore loop a record whose AddMagnet fails is logged and
\* passed: the loop goes on with the records after it, calls AddMagnet for
\* exactly those with a non-empty magnet, and returns no error.
C22_RestoreGoesOn ==
    [][(phase = "restoring" /\ restoreList # << >> /\ phase' = "restoring")
         => /\ restoreList' = Tail(restoreList)
            /\ result'.op = "Restore"
            /\ result'.called = (Head(restoreList).magnetUri # EmptyURI)
            /\ result'.err = ErrNone]_vars

C22_Witness ==
    /\ phase = "restoring"
    /\ result.op = "Restore"
    /\ result.called
    /\ result.logged # ErrNone
    /\ restoreList # << >>
    /\ Head(restoreList).magnetUri # EmptyURI

----------------------------------------------------------------------------
(* Timestamps: the added_at, created_at and updated_at columns of the      *)
(* torrents table and the AddedAt of the client's TorrentInfo               *)

\* The instants the model follows.
MaxClock == 2

StampRow(a, c, u, md) ==
    [addedAt |-> a, createdAt |-> c, updatedAt |-> u, movieDetails |-> md]

\* getTorrentInfo: AddedAt: time.Now()
InfoAddedAt(now) == now

\* TorrentStore.AddTorrent at now: a zero AddedAt becomes now, created_at
\* and updated_at are both now, the row replaces any other of the hash;
\* the record of AddMagnet has no MovieDetails.
AddTorrentStamps(rows, h, addedAt, now) ==
    (h :> StampRow(IF addedAt = ZeroTime THEN now ELSE addedAt, now, now, FALSE))
        @@ rows

\* TorrentStore.UpdateTorrent: added_at is set from the record; created_at,
\* updated_at and movie_details are not in the SET list.
UpdateTorrentStamps(rows, h, addedAt) == [rows EXCEPT ![h].addedAt = addedAt]

\* TorrentStore.UpdateTorrentMovieDetail: added_at and movie_details are set
\* from the record; created_at and updated_at are not in the SET list.
UpdateMovieDetailStamps(rows, h, addedAt) ==
    [rows EXCEPT ![h].addedAt = addedAt, ![h].movieDetails = TRUE]

\* Time passes.
Tick ==
    /\ stamps.clock < MaxClock
    /\ stamps' = [stamps EXCEPT !.clock = @ + 1]
    /\ UNCHANGED <<serverVars, listing, validation, shutdown, reader, db, calls>>

\* Handler.AddMagnet and TorrentService.AddMagnet: the TorrentInfo of
\* Client.AddMagnet is returned and its AddedAt goes into the record, which
\* AddTorrent writes at that instant or a later one.
StampAddMagnet ==
    /\ \E h \in Keys, storeOk \in BOOLEAN, now \in stamps.clock..MaxClock :
          LET info == InfoAddedAt(stamps.clock)
          IN  stamps' =
                [stamps EXCEPT
                   !.clock = now,
                   !.returned[h] = IF @ = ZeroTime THEN info ELSE @,
                   !.rows = IF storeOk THEN AddTorrentStamps(@, h, info, now) ELSE @]
    /\ UNCHANGED <<serverVars, listing, validation, shutdown, reader, db, calls>>

\* Handler.SaveTorrentData and TorrentService.SaveTorrentData:
\* AddedAt: torrentData.AddedAt, from the request's body.
StampSaveTorrentData ==
    /\ \E h \in DOMAIN stamps.rows, addedAt \in ZeroTime..MaxClock :
          stamps' = [stamps EXCEPT !.rows = UpdateTorrentStamps(@, h, addedAt)]
    /\ UNCHANGED <<serverVars, listing, validation, shutdown, reader, db, calls>>

\* UpdateMovieDetails: the record is read by GetTorrent ...
StampUpdateRead ==
    /\ stamps.read = << >>
    /\ \E h \in DOMAIN stamps.rows :
          stamps' = [stamps EXCEPT
                       !.read = <<[infoHash |-> h, addedAt |-> stamps.rows[h].addedAt]>>]
    /\ UNCHANGED <<serverVars, listing, validation, shutdown, reader, db, calls>>

\* ... and written back by UpdateTorrentMovieDetail.
StampUpdateWrite ==
    /\ stamps.read # << >>
    /\ stamps' = [stamps EXCEPT
                    !.read = << >>,
                    !.rows = UpdateMovieDetailStamps(@, stamps.read[1].infoHash,
                                                     stamps.read[1].addedAt)]
    /\ UNCHANGED <<serverVars, listing, validation, shutdown, reader, db, calls>>

\* Client.ListTorrents: a TorrentInfo of getTorrentInfo for every handle.
StampListTorrents ==
    /\ \E h \in Keys : stamps.returned[h] # ZeroTime
    /\ stamps' = [stamps EXCEPT
                    !.listed = [h \in Keys |->
                                  IF stamps.returned[h] # ZeroTime
                                  THEN InfoAddedAt(stamps.clock)
                                  ELSE stamps.listed[h]]]
    /\ UNCHANGED <<serverVars, listing, validation, shutdown, reader, db, calls>>

NextStamps ==
    \/ Tick
    \/ StampAddMagnet
    \/ StampSaveTorrentData
    \/ StampUpdateRead
    \/ StampUpdateWrite
    \/ StampListTorrents

SpecStamps == Init /\ [][NextStamps]_vars

\* C23: every row of the torrents table has
\* updated_at >= created_at >= added_at.
C23_TimestampsOrdered ==
    \A h \in DOMAIN stamps.rows :
        /\ stamps.rows[h].updatedAt >= stamps.rows[h].createdAt
        /\ stamps.rows[h].createdAt >= stamps.rows[h].addedAt

\* C29: the AddedAt of a torrent in a ListTorrents snapshot is the AddedAt
\* the AddMagnet call that added the torrent returned.
C29_AddedAtStable ==
    \A h \in Keys :
        stamps.listed[h] # ZeroTime => stamps.listed[h] = stamps.returned[h]

----------------------------------------------------------------------------
(* Client (torrent/client.go) as its callers' goroutines run it: the steps *)
(* of AddMagnet, GetTorrent, ListTorrents and ListFiles around torrentsLock *)

\* What a call hands back: a TorrentInfo or file list with a nil error, an
\* error, (nil, nil) after the deferred recover of AddMagnet, or a panic
\* that leaves the call.
Returns == {"info", "error", "nil", "panic"}

\* sync.Mutex.Unlock that is not run.
UnlockSkipped(holder, t) == holder

\* c.torrentsLock.Unlock() by t.
Unlock(holder, t) == IF holder = t THEN "" ELSE holder

\* An AddMagnet that stores the handle as soon as the library has the torrent.
RegisteredAtAdd(hs, h) == hs \cup {h}

\* c.torrents when c.client.AddMagnet has returned: nothing is stored until
\* line 155.
HandlesAtAdd(hs, h) == hs

\* t.DownloadAll() called bare.
DownloadAllBare(panics) == IF panics THEN "panicked" ELSE "returned"

\* safeDownloadAll: its deferred recover takes a panic of t.DownloadAll(),
\* the function returns either way.
safeDownloadAll(panics) == "returned"

\* getTorrentInfo(t): info.TotalLength() on the metadata of t.
GetTorrentInfo(hasInfo) == IF hasInfo THEN "info" ELSE "panic"

\* Client.AddMagnet up to the select: the prefix test, c.client.AddMagnet
\* and the trackers.
CallAddMagnet ==
    /\ \E t \in Threads, h \in Keys, valid \in BOOLEAN :
          /\ calls.th[t].pc = "idle"
          /\ calls' =
               IF valid
               THEN [calls EXCEPT
                       !.lib = @ \cup {h},
                       !.handles = HandlesAtAdd(@, h),
                       !.th[t] = [Idle EXCEPT !.pc = "waiting", !.op = "AddMagnet",
                                              !.hash = h]]
               ELSE [calls EXCEPT
                       !.th[t] = [Idle EXCEPT !.pc = "done", !.op = "AddMagnet",
                                              !.hash = h, !.ret = "error"]]
    /\ UNCHANGED <<serverVars, listing, validation, shutdown, reader, db, stamps>>

\* GetTorrent, ListTorrents or ListFiles is called.
CallRead ==
    /\ \E t \in Threads, op \in {"GetTorrent", "ListTorrents", "ListFiles"}, h \in Keys :
          /\ calls.th[t].pc = "idle"
          /\ op = "ListTorrents" => h = "aa"
          /\ calls' = [calls EXCEPT
                         !.th[t] = [Idle EXCEPT !.pc = "acquire", !.op = op,
                                                !.hash = IF op = "ListTorrents" THEN "" ELSE h]]
    /\ UNCHANGED <<serverVars, listing, validation, shutdown, reader, db, stamps>>

\* The metadata of a torrent of the library arrives from the swarm.
MetadataArrives ==
    /\ \E h \in calls.lib \ calls.info :
          calls' = [calls EXCEPT !.info = @ \cup {h}]
    /\ UNCHANGED <<serverVars, listing, validation, shutdown, reader, db, stamps>>

\* case <-t.GotInfo(), then the test of t.Info().
SelectGotInfo ==
    /\ \E t \in Threads :
          /\ calls.th[t].pc = "waiting"
          /\ calls.th[t].hash \in calls.info
          /\ calls' = [calls EXCEPT !.th[t].pc = "download"]
    /\ UNCHANGED <<serverVars, listing, validation, shutdown, reader, db, stamps>>

\* case <-metadataTimeout.C
SelectTimeout ==
    /\ \E t \in Threads :
          /\ calls.th[t].pc = "waiting"
          /\ calls' = [calls EXCEPT !.th[t].pc = "done", !.th[t].ret = "error"]
    /\ UNCHANGED <<serverVars, listing, validation, shutdown, reader, db, stamps>>

\* safeDownloadAll(t) and SetMaxEstablishedConns; a panic that reached
\* AddMagnet would end it in its deferred recover, with zero results.
DownloadAll ==
    /\ \E t \in Threads, panics \in BOOLEAN :
          /\ calls.th[t].pc = "download"
          /\ calls' =
               IF safeDownloadAll(panics) = "returned"
               THEN [calls EXCEPT !.th[t].pc = "acquire", !.th[t].panicked = panics]
               ELSE [calls EXCEPT !.th[t].pc = "done", !.th[t].panicked = panics,
                                  !.th[t].ret = "nil"]
    /\ UNCHANGED <<serverVars, listing, validation, shutdown, reader, db, stamps>>

\* c.torrentsLock.Lock()
Acquire ==
    /\ \E t \in Threads :
          /\ calls.th[t].pc = "acquire"
          /\ calls.lock = ""
          /\ calls' = [calls EXCEPT !.lock = t, !.th[t].pc = "locked"]
    /\ UNCHANGED <<serverVars, listing, validation, shutdown, reader, db, stamps>>

\* AddMagnet under the lock: the handle is stored, getTorrentInfo builds the
\* result, the deferred Unlock runs; a panic of getTorrentInfo ends in the
\* deferred recover.
AddMagnetLocked ==
    /\ \E t \in Threads :
          /\ calls.th[t].pc = "locked"
          /\ calls.th[t].op = "AddMagnet"
          /\ LET h == calls.th[t].hash
                 r == GetTorrentInfo(h \in calls.info)
             IN  calls' = [calls EXCEPT
                             !.handles = @ \cup {h},
                             !.lock = Unlock(@, t),
                             !.th[t].pc = "done",
                             !.th[t].ret = IF r = "panic" THEN "nil" ELSE r]
    /\ UNCHANGED <<serverVars, listing, validation, shutdown, reader, db, stamps>>

\* ListTorrents under the lock: getTorrentInfo of every handle, then the
\* deferred Unlock.
ListTorrentsLocked ==
    /\ \E t \in Threads :
          /\ calls.th[t].pc = "locked"
          /\ calls.th[t].op = "ListTorrents"
          /\ calls' = [calls EXCEPT
                         !.lock = Unlock(@, t),
                         !.th[t].pc = "done",
                         !.th[t].ret = GetTorrentInfo(calls.handles \subseteq calls.info)]
    /\ UNCHANGED <<serverVars, listing, validation, shutdown, reader, db, stamps>>

\* GetTorrent under the lock: the lookup, then the deferred Unlock.
GetTorrentLocked ==
    /\ \E t \in Threads :
          /\ calls.th[t].pc = "locked"
          /\ calls.th[t].op = "GetTorrent"
          /\ calls' = [calls EXCEPT
                         !.lock = Unlock(@, t),
                         !.th[t].pc = "done",
                         !.th[t].ret = IF calls.th[t].hash \in calls.handles
                                       THEN "info" ELSE "error"]
    /\ UNCHANGED <<serverVars, listing, validation, shutdown, reader, db, stamps>>

\* ListFiles under the lock: the lookup and the Unlock after it.
ListFilesLocked ==
    /\ \E t \in Threads :
          /\ calls.th[t].pc = "locked"
          /\ calls.th[t].op = "ListFiles"
          /\ calls' =
               IF calls.th[t].hash \in calls.handles
               THEN [calls EXCEPT !.lock = Unlock(@, t), !.th[t].pc = "files"]
               ELSE [calls EXCEPT !.lock = Unlock(@, t), !.th[t].pc = "done",
                                  !.th[t].ret = "error"]
    /\ UNCHANGED <<serverVars, listing, validation, shutdown, reader, db, stamps>>

\* ListFiles after the lock: t.Info().IsDir() and the entries of t.Files().
ListFilesBuild ==
    /\ \E t \in Threads :
          /\ calls.th[t].pc = "files"
          /\ calls' = [calls EXCEPT
                         !.th[t].pc = "done",
                         !.th[t].ret = GetTorrentInfo(calls.th[t].hash \in calls.info)]
    /\ UNCHANGED <<serverVars, listing, validation, shutdown, reader, db, stamps>>

\* The call has returned to its caller.
Return ==
    /\ \E t \in Threads :
          /\ calls.th[t].pc = "done"
          /\ calls' = [calls EXCEPT !.th[t] = Idle]
    /\ UNCHANGED <<serverVars, listing, validation, shutdown, reader, db, stamps>>

NextCalls ==
    \/ CallAddMagnet
    \/ CallRead
    \/ MetadataArrives
    \/ SelectGotInfo
    \/ SelectTimeout
    \/ DownloadAll
    \/ Acquire
    \/ AddMagnetLocked
    \/ ListTorrentsLocked
    \/ GetTorrentLocked
    \/ ListFilesLocked
    \/ ListFilesBuild
    \/ Return

SpecCalls == Init /\ [][NextCalls]_vars

\* C24: an AddMagnet whose t.DownloadAll() panicked, the metadata being
\* there, returns the torrent's info with no error, and the torrent is in
\* the handle map; no panic leaves the call.
C24_DownloadPanicRecovered ==
    \A t \in Threads :
        (calls.th[t].op = "AddMagnet" /\ calls.th[t].pc = "done" /\ calls.th[t].panicked)
            => /\ calls.th[t].ret = "info"
               /\ calls.th[t].hash \in calls.handles

C24_Witness ==
    \E t \in Threads :
        /\ calls.th[t].op = "AddMagnet"
        /\ calls.th[t].pc = "done"
        /\ calls.th[t].panicked
        /\ calls.th[t].ret = "info"

\* C25: torrentsLock is held only between a Lock and the Unlock of the same
\* call: never by a call that waits for metadata, never by one that has
\* returned or is outside the section under the lock.
C25_LockOnlyInSection ==
    \A t \in Threads :
        /\ calls.th[t].pc = "waiting" => calls.lock # t
        /\ calls.lock = t => calls.th[t].pc = "locked"

C25_Witness ==
    \E t, u \in Threads :
        /\ calls.th[t].pc = "waiting"
        /\ calls.th[t].hash \notin calls.info
        /\ calls.th[u].op = "ListTorrents"
        /\ calls.th[u].pc = "done"
        /\ calls.th[u].ret = "info"
        /\ calls.handles # {}

\* C26: every torrent of the handle map has its metadata, and no call
\* ends in a panic on missing metadata.
C26_HandlesHaveMetadata ==
    /\ calls.handles \subseteq calls.info
    /\ \A t \in Threads : calls.th[t].ret # "panic"

C26_Witness ==
    /\ calls.handles # {}
    /\ calls.lib \ calls.info # {}
    /\ \E t \in Threads :
          /\ calls.th[t].op = "ListFiles"
          /\ calls.th[t].pc = "done"
          /\ calls.th[t].ret = "info"

----------------------------------------------------------------------------
(* Frame conditions of the handlers on the catalog *)

\* C27: TorrentService.AddMagnet for an info-hash whose record carries movie
\* details leaves the movie details and the file list of that record as
\* they were.
C27_AddMagnetKeepsEnrichment ==
    [][(/\ server = "refactored"
        /\ result'.op = "AddMagnet"
        /\ result'.called
        /\ result'.err = ErrNone
        /\ HasRecord(catalog, result'.infoHash)
        /\ catalog[result'.infoHash].movieDetails = 1)
         => /\ HasRecord(catalog', result'.infoHash)
            /\ catalog'[result'.infoHash].movieDetails = 1
            /\ catalog'[result'.infoHash].files = catalog[result'.infoHash].files]_vars

\* C28: a SaveTorrentData that succeeds leaves the magnet of the record as
\* it was.
C28_SaveDataKeepsMagnet ==
    [][(/\ result'.op = "SaveTorrentData"
        /\ result'.err = ErrNone
        /\ HasRecord(catalog, result'.infoHash))
         => /\ HasRecord(catalog', result'.infoHash)
            /\ catalog'[result'.infoHash].magnetUri
                 = catalog[result'.infoHash].magnetUri]_vars

\* C30: Handler.UpdateMovieDetails of main.go's server, for an info-hash
\* without a record, ends without a nil dereference and leaves the catalog
\* as it was.
C30_UpdateUnknownCompletes ==
    [][(/\ server = "legacy"
        /\ result'.op = "UpdateMovieDetails"
        /\ ~HasRecord(catalog, result'.infoHash))
         => /\ result'.err # ErrPanic
            /\ catalog' = catalog]_vars

====
